---- MODULE Spec2Model ----
(***************************************************************************)
(* The instrumented merge sort of src/algorithm.py (class MergeSort) as a  *)
(* state machine.  One action per statement block of merge_sort,           *)
(* _merge_sort_recursive and _merge; the recursion is an explicit stack of *)
(* frames.  Python lists are objects: the caller's list and the working    *)
(* copy are two cells of a small heap, and arr / the returned value are    *)
(* references to one of them, so that aliasing is visible.                 *)
(* Indices (left, right, mid, i, j, k, position) are 0-based as in the     *)
(* source; a Python arr[k] is the TLA+ element arr[k + 1].                 *)
(* The dashboard of src/app.py (function main) is a second caller of the   *)
(* engine: its session state and the step navigation are the actions of    *)
(* SpecDashboard.                                                          *)
(***************************************************************************)
EXTENDS Integers, Sequences, FiniteSets, TLC

(* ------------------------------ bounds --------------------------------- *)
MaxLen == 3      \* longest list the caller builds
MaxVal == 2      \* element values are 1..MaxVal
MaxCalls == 2    \* merge_sort calls made on the long-lived engine

Values == 1..MaxVal

(* Engine 1 is the long-lived engine (setUp / session state), engine 2 is  *)
(* a second MergeSort() constructed just before a single instrumented call *)
Engines == {1, 2}

(* ----------------------------- elements -------------------------------- *)
(* An element is a value tagged with the position it has in the list the   *)
(* current call was given (NumberWithPosition of the stability test); only *)
(* the value takes part in comparisons.  The tags are set afresh when a    *)
(* call is made.                                                           *)
Elem(v, p) == [val |-> v, pos |-> p]

Le_Strict(a, b) == a.val < b.val

(* The comparison of line 107 written the other way round *)
Le_Reversed(a, b) == a.val >= b.val

Le(a, b) == a.val <= b.val

(* An element that is not a number (a str): Python raises TypeError when   *)
(* it is compared with an int.  It is written as the value 0, which is     *)
(* outside Values.                                                         *)
IsStr(e) == e.val = 0

Comparable(a, b) == IsStr(a) = IsStr(b)

Tagged(x) == [n \in 1..Len(x) |-> Elem(x[n], n)]

Vals(a) == [n \in 1..Len(a) |-> a[n].val]

Inputs == UNION {[1..n -> Values] : n \in 0..MaxLen}

(* Python slice a[lo:hi] and list.copy() *)
Slice(a, lo, hi) == SubSeq(a, lo + 1, hi)

Copy(a) == a

(* ----------------------- the dashboard's lists -------------------------- *)
(* The lists the dashboard can load, cut down to the bounds: what the      *)
(* navigation depends on is their length.                                  *)
Ascending(n) == [m \in 1..n |-> IF m < MaxVal THEN m ELSE MaxVal]

Descending(n) == [m \in 1..n |-> IF n - m + 1 < MaxVal THEN n - m + 1 ELSE MaxVal]

(* The default array [64, 34, 25, 12, 22, 11, 90] of the main area *)
DefaultArray == [m \in 1..MaxLen |-> IF m % 2 = 1 THEN MaxVal ELSE 1]

(* generate_sample_data for "Sorted" and "Reverse Sorted" *)
generate_sample_data == {Ascending(MaxLen), Descending(MaxLen)}

(* generate_test_cases: empty, single_element, two_elements and a longer   *)
(* list                                                                    *)
generate_test_cases == {<<>>, <<MaxVal>>, <<MaxVal, 1>>, Descending(MaxLen)}

(* What the manual text input parses to: a non-empty list of integers *)
ManualInputs == {[m \in 1..n |-> 1] : n \in 1..MaxLen}

(* sorted_array is None or a list *)
None == [isNone |-> TRUE, list |-> <<>>]

Some(l) == [isNone |-> FALSE, list |-> l]

VARIABLES
  heap,            \* [input |-> caller's list, work |-> the arr.copy() object]
  arrRef,          \* which object the parameter arr of the recursion refers to
  retRef,          \* which object merge_sort returned ("none" while running)
  pc,              \* "idle", "enter", "run", "done", "written", "raised"
  self,            \* the engine the current / last call was made on
  track,           \* track_steps of the current / last call
  stack,           \* frames of _merge_sort_recursive, innermost last
  left_arr, right_arr, i, j, k,   \* locals of the _merge in progress
  steps, comparisons, array_accesses,   \* fields of each engine
  ncalls,          \* calls made on engine 1
  input0,          \* contents of the caller's list when the call was made
  pre,             \* engine 1's fields when its last call was made
  resort,          \* the call's argument is the previous call's return value
  held,            \* contents of the list object a consumer of engine 1's
                   \* trace keeps a reference to (st.session_state.steps)
  live,            \* that object is still the one engine 1's self.steps names
  session,         \* st.session_state: input_array, sorted_array, current_step
  widgets,         \* the "Step:" slider widgets the dashboard holds a value for
  script           \* "sort" while a script run is inside the Sort Array handler

vars == <<heap, arrRef, retRef, pc, self, track, stack, left_arr, right_arr,
          i, j, k, steps, comparisons, array_accesses, ncalls, input0, pre,
          resort, held, live, session, widgets, script>>

mergeLocals == <<left_arr, right_arr, i, j, k>>
engineFields == <<steps, comparisons, array_accesses>>
callGhosts == <<ncalls, input0, pre, resort>>
consumerVars == <<held, live>>
dashVars == <<session, widgets, script>>

(* The object a reference points to *)
Deref(r) == IF r = "input" THEN heap.input ELSE heap.work

arr == Deref(arrRef)

Top == stack[Len(stack)]

Pop(s) == SubSeq(s, 1, Len(s) - 1)

SetTop(s, f) == [s EXCEPT ![Len(s)] = f]

Frame(l, r, at) == [left |-> l, right |-> r, at |-> at]

Mid_Ceil(f) == (f.left + f.right + 1) \div 2

Mid(f) == (f.left + f.right) \div 2

Fields(e) == [steps |-> steps[e], comparisons |-> comparisons[e],
              array_accesses |-> array_accesses[e]]

(* MergeSort.__init__ *)
NewEngine == [steps |-> <<>>, comparisons |-> 0, array_accesses |-> 0]

(* get_statistics *)
get_statistics(e) == [comparisons |-> comparisons[e],
                      array_accesses |-> array_accesses[e],
                      steps |-> Len(steps[e])]

Init ==
  /\ heap = [input |-> <<>>, work |-> <<>>]
  /\ arrRef = "none"
  /\ retRef = "none"
  /\ pc = "idle"
  /\ self = 1
  /\ track = FALSE
  /\ stack = <<>>
  /\ left_arr = <<>> /\ right_arr = <<>>
  /\ i = 0 /\ j = 0 /\ k = 0
  /\ steps = [e \in Engines |-> NewEngine.steps]
  /\ comparisons = [e \in Engines |-> NewEngine.comparisons]
  /\ array_accesses = [e \in Engines |-> NewEngine.array_accesses]
  /\ ncalls = 0
  /\ input0 = <<>>
  /\ pre = NewEngine
  /\ resort = FALSE
  /\ held = <<>>
  /\ live = FALSE
  /\ session = [input_array |-> DefaultArray, sorted_array |-> None,
                current_step |-> 0]
  /\ widgets = {}
  /\ script = "none"

(* ---------------------------- step records ----------------------------- *)
(* The dictionaries appended to self.steps.  An f-string is the            *)
(* concatenation of its literal parts and the formatted values.            *)
Str(v) == ToString(v)

(* DivideRecord with 'array': arr[left:right + 1], the range being split  *)
(* instead of the whole list                                               *)
DivideRecord_RangeOnly(a, l, r, m) ==
  [type |-> "divide", array |-> Slice(a, l, r + 1), left |-> l, right |-> r,
   mid |-> m,
   description |-> "Dividing array from index " \o Str(l) \o " to " \o Str(r)
                   \o " at mid " \o Str(m)]

DivideRecord(a, l, r, m) ==
  [type |-> "divide", array |-> Copy(a), left |-> l, right |-> r, mid |-> m,
   description |-> "Dividing array from index " \o Str(l) \o " to " \o Str(r)
                   \o " at mid " \o Str(m)]

MergeStartRecord(a, l, m, r, la, ra) ==
  [type |-> "merge_start", array |-> Copy(a), left |-> l, mid |-> m,
   right |-> r, left_subarray |-> Copy(la), right_subarray |-> Copy(ra),
   description |-> "Merging subarrays: " \o Str(la) \o " and " \o Str(ra)]

MergeStepRecord(a, x, y, takeLeft, pos) ==
  [type |-> "merge_step", array |-> Copy(a), comparing |-> <<x, y>>,
   chosen |-> IF takeLeft THEN x ELSE y, position |-> pos,
   description |-> "Comparing " \o Str(x)
                   \o (IF takeLeft THEN " <= " ELSE " > ") \o Str(y)
                   \o ", placing " \o Str(IF takeLeft THEN x ELSE y)
                   \o " at position " \o Str(pos)]

MergeRemainingRecord(a, x, pos) ==
  [type |-> "merge_remaining", array |-> Copy(a), element |-> x,
   position |-> pos,
   description |-> "Copying remaining element " \o Str(x) \o " to position "
                   \o Str(pos)]

MergeCompleteRecord_RightIsLeft(a, l, r) ==
  [type |-> "merge_complete", array |-> Copy(a), left |-> l, right |-> l,
   description |-> "Completed merging from index " \o Str(l) \o " to "
                   \o Str(l)]

MergeCompleteRecord(a, l, r) ==
  [type |-> "merge_complete", array |-> Copy(a), left |-> l, right |-> r,
   description |-> "Completed merging from index " \o Str(l) \o " to "
                   \o Str(r)]

(* Record with 'array': arr in place of 'array': arr.copy(): every record  *)
(* holds the working list itself, so all of them show its current contents *)
Record_Aliased(rec) ==
  /\ steps' = IF track
              THEN [steps EXCEPT ![self] =
                      Append([n \in 1..Len(@) |->
                                [@[n] EXCEPT !.array = rec.array]], rec)]
              ELSE steps
  /\ held' = IF track /\ live /\ self = 1
             THEN Append([n \in 1..Len(held) |->
                            [held[n] EXCEPT !.array = rec.array]], rec)
             ELSE held

(* self.steps.append(rec) on the receiver, only when track_steps.  The     *)
(* append is to the list object self.steps names: a consumer holding that  *)
(* same object sees it too.                                                *)
Record(rec) ==
  /\ steps' = IF track THEN [steps EXCEPT ![self] = Append(@, rec)] ELSE steps
  /\ held' = IF track /\ live /\ self = 1 THEN Append(held, rec) ELSE held

(* arr[pos] = x : a write through the reference arr *)
Store(pos, x) ==
  heap' = IF arrRef = "input"
          THEN [heap EXCEPT !.input[pos + 1] = x]
          ELSE [heap EXCEPT !.work[pos + 1] = x]

(* The snapshot taken before the assignment instead of after it *)
Stored_Before(pos, x) == arr

(* The array as the record's arr.copy() sees it, after arr[pos] = x *)
Stored(pos, x) == [arr EXCEPT ![pos + 1] = x]

(* ------------------------------ callers -------------------------------- *)
CanCall == pc \in {"idle", "done", "written"} /\ ncalls < MaxCalls

(* Engine 2 is dropped whenever the long-lived engine is used again *)
DropSecondEngine(f) == [f EXCEPT ![2] = 0]

BeginCall(lst, t, isResort) ==
  /\ heap' = [input |-> Tagged(Vals(lst)), work |-> <<>>]
  /\ arrRef' = "none"
  /\ retRef' = "none"
  /\ pc' = "enter"
  /\ self' = 1
  /\ track' = t
  /\ steps' = [steps EXCEPT ![2] = <<>>]
  /\ comparisons' = DropSecondEngine(comparisons)
  /\ array_accesses' = DropSecondEngine(array_accesses)
  /\ ncalls' = ncalls + 1
  /\ input0' = Tagged(Vals(lst))
  /\ pre' = Fields(1)
  /\ resort' = isResort
  /\ UNCHANGED <<stack, mergeLocals>>
  /\ UNCHANGED consumerVars

(* result = self.merge_sort.merge_sort(input_array, track_steps=t) on a    *)
(* list the caller has just built; it is the first call on the engine      *)
CallNew(x, t) ==
  /\ CanCall
  /\ pc = "idle"
  /\ BeginCall(Tagged(x), t, FALSE)
  /\ UNCHANGED dashVars

(* merge_sort called on a list of numbers in which one element is a str *)
CallMixed(x, p, t) ==
  /\ CanCall
  /\ p \in 1..Len(x)
  /\ BeginCall([Tagged(x) EXCEPT ![p].val = 0], t, FALSE)
  /\ UNCHANGED dashVars

(* merge_sort called once more on the same input list *)
CallAgain(t) ==
  /\ CanCall
  /\ pc # "idle"
  /\ BeginCall(heap.input, t, FALSE)
  /\ UNCHANGED dashVars

(* merge_sort called on the list a previous call returned (re-sorting);    *)
(* the argument is that very object                                        *)
CallOnResult(t) ==
  /\ CanCall
  /\ retRef # "none"
  /\ BeginCall(Deref(retRef), t, pc = "done")
  /\ UNCHANGED dashVars

(* The caller writes to the list it got back: result.append(v) *)
CallerAppend(v) ==
  /\ pc = "done"
  /\ Len(Deref(retRef)) < MaxLen
  /\ heap' = IF retRef = "input"
             THEN [heap EXCEPT !.input = Append(@, Elem(v, Len(@) + 1))]
             ELSE [heap EXCEPT !.work = Append(@, Elem(v, Len(@) + 1))]
  /\ pc' = "written"
  /\ UNCHANGED <<arrRef, retRef, self, track, stack, mergeLocals,
                 engineFields, callGhosts>>
  /\ UNCHANGED consumerVars
  /\ UNCHANGED dashVars

(* The caller writes to the list it got back: result.pop() *)
CallerPop ==
  /\ pc = "done"
  /\ Len(Deref(retRef)) > 0
  /\ heap' = IF retRef = "input"
             THEN [heap EXCEPT !.input = Pop(@)]
             ELSE [heap EXCEPT !.work = Pop(@)]
  /\ pc' = "written"
  /\ UNCHANGED <<arrRef, retRef, self, track, stack, mergeLocals,
                 engineFields, callGhosts>>
  /\ UNCHANGED consumerVars
  /\ UNCHANGED dashVars

(* A second engine is constructed, MergeSort(), and sorts the same list    *)
(* with track_steps=True as its first and only call                        *)
CallOnFreshEngine ==
  /\ pc = "done"
  /\ self = 1
  /\ track
  /\ heap.input = input0
  /\ heap' = [input |-> heap.input, work |-> <<>>]
  /\ arrRef' = "none"
  /\ retRef' = "none"
  /\ pc' = "enter"
  /\ self' = 2
  /\ track' = TRUE
  /\ steps' = [steps EXCEPT ![2] = NewEngine.steps]
  /\ comparisons' = [comparisons EXCEPT ![2] = NewEngine.comparisons]
  /\ array_accesses' = [array_accesses EXCEPT ![2] = NewEngine.array_accesses]
  /\ resort' = FALSE
  /\ UNCHANGED <<stack, mergeLocals, ncalls, input0, pre>>
  /\ UNCHANGED consumerVars
  /\ UNCHANGED dashVars

(* st.session_state.steps = st.session_state.merge_sort.steps after an     *)
(* instrumented sort: the consumer keeps a reference to the engine's list  *)
Consume ==
  /\ pc = "done"
  /\ self = 1
  /\ track
  /\ ~live
  /\ held' = steps[1]
  /\ live' = TRUE
  /\ UNCHANGED <<heap, arrRef, retRef, pc, self, track, stack, mergeLocals,
                 engineFields, callGhosts>>
  /\ UNCHANGED dashVars

(* ----------------------------- merge_sort ------------------------------ *)
(* Enter with self.steps.clear() in place of self.steps = [] *)
Enter_ClearInPlace ==
  /\ pc = "enter"
  /\ IF track
     THEN /\ steps' = [steps EXCEPT ![self] = <<>>]
          /\ comparisons' = [comparisons EXCEPT ![self] = 0]
          /\ array_accesses' = [array_accesses EXCEPT ![self] = 0]
     ELSE UNCHANGED engineFields
  /\ IF Len(heap.input) <= 1
     THEN /\ retRef' = "input"
          /\ pc' = "done"
          /\ UNCHANGED <<heap, arrRef, stack>>
     ELSE /\ heap' = [heap EXCEPT !.work = Copy(heap.input)]
          /\ arrRef' = "work"
          /\ stack' = <<Frame(0, Len(heap.input) - 1, "start")>>
          /\ pc' = "run"
          /\ UNCHANGED retRef
  /\ UNCHANGED <<self, track, mergeLocals, callGhosts>>
  /\ held' = IF track /\ live /\ self = 1 THEN <<>> ELSE held
  /\ UNCHANGED live
  /\ UNCHANGED dashVars

(* Enter with the recursion started on arr itself instead of arr.copy() *)
Enter_NoCopy ==
  /\ pc = "enter"
  /\ IF track
     THEN /\ steps' = [steps EXCEPT ![self] = <<>>]
          /\ comparisons' = [comparisons EXCEPT ![self] = 0]
          /\ array_accesses' = [array_accesses EXCEPT ![self] = 0]
     ELSE UNCHANGED engineFields
  /\ IF Len(heap.input) <= 1
     THEN /\ retRef' = "input"
          /\ pc' = "done"
          /\ UNCHANGED <<heap, arrRef, stack>>
     ELSE /\ arrRef' = "input"
          /\ stack' = <<Frame(0, Len(heap.input) - 1, "start")>>
          /\ pc' = "run"
          /\ UNCHANGED <<heap, retRef>>
  /\ UNCHANGED <<self, track, mergeLocals, callGhosts>>
  /\ live' = (live /\ ~(track /\ self = 1))
  /\ UNCHANGED held
  /\ UNCHANGED dashVars

(* Enter with the reset of the comparison counter left out *)
Enter_KeepComparisons ==
  /\ pc = "enter"
  /\ IF track
     THEN /\ steps' = [steps EXCEPT ![self] = <<>>]
          /\ array_accesses' = [array_accesses EXCEPT ![self] = 0]
          /\ UNCHANGED comparisons
     ELSE UNCHANGED engineFields
  /\ IF Len(heap.input) <= 1
     THEN /\ retRef' = "input"
          /\ pc' = "done"
          /\ UNCHANGED <<heap, arrRef, stack>>
     ELSE /\ heap' = [heap EXCEPT !.work = Copy(heap.input)]
          /\ arrRef' = "work"
          /\ stack' = <<Frame(0, Len(heap.input) - 1, "start")>>
          /\ pc' = "run"
          /\ UNCHANGED retRef
  /\ UNCHANGED <<self, track, mergeLocals, callGhosts>>
  /\ live' = (live /\ ~(track /\ self = 1))
  /\ UNCHANGED held
  /\ UNCHANGED dashVars

(* Enter with the length check placed before the reset *)
Enter_CheckBeforeReset ==
  /\ pc = "enter"
  /\ IF Len(heap.input) <= 1
     THEN /\ retRef' = "input"
          /\ pc' = "done"
          /\ UNCHANGED <<heap, arrRef, stack, engineFields>>
     ELSE /\ IF track
             THEN /\ steps' = [steps EXCEPT ![self] = <<>>]
                  /\ comparisons' = [comparisons EXCEPT ![self] = 0]
                  /\ array_accesses' = [array_accesses EXCEPT ![self] = 0]
             ELSE UNCHANGED engineFields
          /\ heap' = [heap EXCEPT !.work = Copy(heap.input)]
          /\ arrRef' = "work"
          /\ stack' = <<Frame(0, Len(heap.input) - 1, "start")>>
          /\ pc' = "run"
          /\ UNCHANGED retRef
  /\ UNCHANGED <<self, track, mergeLocals, callGhosts>>
  /\ live' = (live /\ ~(track /\ self = 1))
  /\ UNCHANGED held
  /\ UNCHANGED dashVars

(* Lines 24-32: reset when tracking, early return of arr itself for a list *)
(* of length <= 1, otherwise start the recursion on arr.copy()             *)
Enter ==
  /\ pc = "enter"
  /\ IF track
     THEN /\ steps' = [steps EXCEPT ![self] = <<>>]
          /\ comparisons' = [comparisons EXCEPT ![self] = 0]
          /\ array_accesses' = [array_accesses EXCEPT ![self] = 0]
     ELSE UNCHANGED engineFields
  /\ IF Len(heap.input) <= 1
     THEN /\ retRef' = "input"
          /\ pc' = "done"
          /\ UNCHANGED <<heap, arrRef, stack>>
     ELSE /\ heap' = [heap EXCEPT !.work = Copy(heap.input)]
          /\ arrRef' = "work"
          /\ stack' = <<Frame(0, Len(heap.input) - 1, "start")>>
          /\ pc' = "run"
          /\ UNCHANGED retRef
  /\ UNCHANGED <<self, track, mergeLocals, callGhosts>>
  /\ live' = (live /\ ~(track /\ self = 1))
  /\ UNCHANGED held
  /\ UNCHANGED dashVars

(* Line 33: the outermost recursive call has returned arr *)
Return ==
  /\ pc = "run"
  /\ stack = <<>>
  /\ retRef' = arrRef
  /\ pc' = "done"
  /\ UNCHANGED <<heap, arrRef, self, track, stack, mergeLocals, engineFields,
                 callGhosts>>
  /\ UNCHANGED consumerVars
  /\ UNCHANGED dashVars

(* ------------------------ _merge_sort_recursive ------------------------ *)
InFrame(at) == pc = "run" /\ stack # <<>> /\ Top.at = at

(* BaseCase with the test written left > right: a range of one element is *)
(* no longer a base case and the recursion never bottoms out               *)
BaseCase_Strict ==
  /\ InFrame("start")
  /\ Top.left > Top.right
  /\ stack' = Pop(stack)
  /\ UNCHANGED <<heap, arrRef, retRef, pc, self, track, mergeLocals,
                 engineFields, callGhosts>>
  /\ UNCHANGED consumerVars
  /\ UNCHANGED dashVars

(* Lines 48-49: a range of length <= 1 returns at once *)
BaseCase ==
  /\ InFrame("start")
  /\ Top.left >= Top.right
  /\ stack' = Pop(stack)
  /\ UNCHANGED <<heap, arrRef, retRef, pc, self, track, mergeLocals,
                 engineFields, callGhosts>>
  /\ UNCHANGED consumerVars
  /\ UNCHANGED dashVars

(* Lines 51-64: compute mid, record the divide, recurse into [left, mid] *)
Divide ==
  /\ InFrame("start")
  /\ Top.left < Top.right
  /\ Record(DivideRecord(arr, Top.left, Top.right, Mid(Top)))
  /\ stack' = Append(SetTop(stack, [Top EXCEPT !.at = "left"]),
                     Frame(Top.left, Mid(Top), "start"))
  /\ UNCHANGED <<heap, arrRef, retRef, pc, self, track, mergeLocals,
                 comparisons, array_accesses, callGhosts>>
  /\ UNCHANGED live
  /\ UNCHANGED dashVars

(* RecurseRight with the second recursive call made on [left, mid] again *)
RecurseRight_LeftAgain ==
  /\ InFrame("left")
  /\ stack' = Append(SetTop(stack, [Top EXCEPT !.at = "right"]),
                     Frame(Top.left, Mid(Top), "start"))
  /\ UNCHANGED <<heap, arrRef, retRef, pc, self, track, mergeLocals,
                 engineFields, callGhosts>>
  /\ UNCHANGED consumerVars
  /\ UNCHANGED dashVars

(* Line 65: the left call has returned, recurse into [mid + 1, right] *)
RecurseRight ==
  /\ InFrame("left")
  /\ stack' = Append(SetTop(stack, [Top EXCEPT !.at = "right"]),
                     Frame(Mid(Top) + 1, Top.right, "start"))
  /\ UNCHANGED <<heap, arrRef, retRef, pc, self, track, mergeLocals,
                 engineFields, callGhosts>>
  /\ UNCHANGED consumerVars
  /\ UNCHANGED dashVars

(* -------------------------------- _merge ------------------------------- *)
(* MergeBegin with right_arr = arr[mid + 1:right], one element short *)
MergeBegin_ShortRight ==
  /\ InFrame("right")
  /\ left_arr' = Slice(arr, Top.left, Mid(Top) + 1)
  /\ right_arr' = Slice(arr, Mid(Top) + 1, Top.right)
  /\ Record(MergeStartRecord(arr, Top.left, Mid(Top), Top.right,
                             left_arr', right_arr'))
  /\ i' = 0 /\ j' = 0
  /\ k' = Top.left
  /\ stack' = SetTop(stack, [Top EXCEPT !.at = "merge"])
  /\ UNCHANGED <<heap, arrRef, retRef, pc, self, track, comparisons,
                 array_accesses, callGhosts>>
  /\ UNCHANGED live
  /\ UNCHANGED dashVars

(* MergeBegin with the two buffers taken from each other's half *)
MergeBegin_Swapped ==
  /\ InFrame("right")
  /\ left_arr' = Slice(arr, Mid(Top) + 1, Top.right + 1)
  /\ right_arr' = Slice(arr, Top.left, Mid(Top) + 1)
  /\ Record(MergeStartRecord(arr, Top.left, Mid(Top), Top.right,
                             left_arr', right_arr'))
  /\ i' = 0 /\ j' = 0
  /\ k' = Top.left
  /\ stack' = SetTop(stack, [Top EXCEPT !.at = "merge"])
  /\ UNCHANGED <<heap, arrRef, retRef, pc, self, track, comparisons,
                 array_accesses, callGhosts>>
  /\ UNCHANGED live
  /\ UNCHANGED dashVars

(* Lines 68, 84-100: both halves are sorted; slice the two buffers, record *)
(* merge_start, i = j = 0, k = left                                        *)
MergeBegin ==
  /\ InFrame("right")
  /\ left_arr' = Slice(arr, Top.left, Mid(Top) + 1)
  /\ right_arr' = Slice(arr, Mid(Top) + 1, Top.right + 1)
  /\ Record(MergeStartRecord(arr, Top.left, Mid(Top), Top.right,
                             left_arr', right_arr'))
  /\ i' = 0 /\ j' = 0
  /\ k' = Top.left
  /\ stack' = SetTop(stack, [Top EXCEPT !.at = "merge"])
  /\ UNCHANGED <<heap, arrRef, retRef, pc, self, track, comparisons,
                 array_accesses, callGhosts>>
  /\ UNCHANGED live
  /\ UNCHANGED dashVars

(* MergeCompare with the comparison counted only when the right element   *)
(* is taken                                                                *)
MergeCompare_CountInElse ==
  /\ InFrame("merge")
  /\ i < Len(left_arr) /\ j < Len(right_arr)
  /\ Comparable(left_arr[i + 1], right_arr[j + 1])
  /\ array_accesses' = [array_accesses EXCEPT ![self] = @ + 2 + 1]
  /\ LET x == left_arr[i + 1]
         y == right_arr[j + 1]
     IN IF Le(x, y)
        THEN /\ Store(k, x)
             /\ Record(MergeStepRecord(Stored(k, x), x, y, TRUE, k))
             /\ i' = i + 1
             /\ j' = j
             /\ UNCHANGED comparisons
        ELSE /\ Store(k, y)
             /\ Record(MergeStepRecord(Stored(k, y), x, y, FALSE, k))
             /\ i' = i
             /\ j' = j + 1
             /\ comparisons' = [comparisons EXCEPT ![self] = @ + 1]
  /\ k' = k + 1
  /\ UNCHANGED <<arrRef, retRef, pc, self, track, stack, left_arr, right_arr,
                 callGhosts>>
  /\ UNCHANGED live
  /\ UNCHANGED dashVars

(* MergeCompare with the two counters' increments exchanged *)
MergeCompare_CountersSwapped ==
  /\ InFrame("merge")
  /\ i < Len(left_arr) /\ j < Len(right_arr)
  /\ Comparable(left_arr[i + 1], right_arr[j + 1])
  /\ comparisons' = [comparisons EXCEPT ![self] = @ + 2 + 1]
  /\ array_accesses' = [array_accesses EXCEPT ![self] = @ + 1]
  /\ LET x == left_arr[i + 1]
         y == right_arr[j + 1]
     IN IF Le(x, y)
        THEN /\ Store(k, x)
             /\ Record(MergeStepRecord(Stored(k, x), x, y, TRUE, k))
             /\ i' = i + 1
             /\ j' = j
        ELSE /\ Store(k, y)
             /\ Record(MergeStepRecord(Stored(k, y), x, y, FALSE, k))
             /\ i' = i
             /\ j' = j + 1
  /\ k' = k + 1
  /\ UNCHANGED <<arrRef, retRef, pc, self, track, stack, left_arr, right_arr,
                 callGhosts>>
  /\ UNCHANGED live
  /\ UNCHANGED dashVars

(* Lines 103-132: one iteration of the interleaving loop.  The counters    *)
(* are incremented whether or not track_steps is set.                      *)
MergeCompare ==
  /\ InFrame("merge")
  /\ i < Len(left_arr) /\ j < Len(right_arr)
  /\ Comparable(left_arr[i + 1], right_arr[j + 1])
  /\ comparisons' = [comparisons EXCEPT ![self] = @ + 1]
  /\ array_accesses' = [array_accesses EXCEPT ![self] = @ + 2 + 1]
  /\ LET x == left_arr[i + 1]
         y == right_arr[j + 1]
     IN IF Le(x, y)
        THEN /\ Store(k, x)
             /\ Record(MergeStepRecord(Stored(k, x), x, y, TRUE, k))
             /\ i' = i + 1
             /\ j' = j
        ELSE /\ Store(k, y)
             /\ Record(MergeStepRecord(Stored(k, y), x, y, FALSE, k))
             /\ i' = i
             /\ j' = j + 1
  /\ k' = k + 1
  /\ UNCHANGED <<arrRef, retRef, pc, self, track, stack, left_arr, right_arr,
                 callGhosts>>
  /\ UNCHANGED live
  /\ UNCHANGED dashVars

(* Lines 103-107 when the two elements cannot be compared: the counters   *)
(* have been incremented, the comparison raises TypeError, and with no     *)
(* handler anywhere the exception leaves every frame and merge_sort itself *)
RaiseTypeError ==
  /\ InFrame("merge")
  /\ i < Len(left_arr) /\ j < Len(right_arr)
  /\ ~Comparable(left_arr[i + 1], right_arr[j + 1])
  /\ comparisons' = [comparisons EXCEPT ![self] = @ + 1]
  /\ array_accesses' = [array_accesses EXCEPT ![self] = @ + 2]
  /\ stack' = <<>>
  /\ left_arr' = <<>> /\ right_arr' = <<>>
  /\ i' = 0 /\ j' = 0 /\ k' = 0
  /\ pc' = "raised"
  /\ UNCHANGED <<heap, arrRef, retRef, self, track, steps, callGhosts>>
  /\ UNCHANGED consumerVars
  /\ UNCHANGED dashVars

(* CopyLeft with its loop placed before the interleaving loop: it runs     *)
(* whether or not the right buffer is exhausted                            *)
CopyLeft_Early ==
  /\ InFrame("merge")
  /\ i < Len(left_arr)
  /\ Store(k, left_arr[i + 1])
  /\ Record(MergeRemainingRecord(Stored(k, left_arr[i + 1]),
                                 left_arr[i + 1], k))
  /\ i' = i + 1
  /\ k' = k + 1
  /\ array_accesses' = [array_accesses EXCEPT ![self] = @ + 1]
  /\ UNCHANGED <<arrRef, retRef, pc, self, track, stack, left_arr, right_arr,
                 j, comparisons, callGhosts>>
  /\ UNCHANGED live
  /\ UNCHANGED dashVars

(* CopyLeft with k += 1 left out: every leftover element of left_arr is   *)
(* written to the same position                                            *)
CopyLeft_NoAdvance ==
  /\ InFrame("merge")
  /\ ~(i < Len(left_arr) /\ j < Len(right_arr))
  /\ i < Len(left_arr)
  /\ Store(k, left_arr[i + 1])
  /\ Record(MergeRemainingRecord(Stored(k, left_arr[i + 1]),
                                 left_arr[i + 1], k))
  /\ i' = i + 1
  /\ k' = k
  /\ array_accesses' = [array_accesses EXCEPT ![self] = @ + 1]
  /\ UNCHANGED <<arrRef, retRef, pc, self, track, stack, left_arr, right_arr,
                 j, comparisons, callGhosts>>
  /\ UNCHANGED live
  /\ UNCHANGED dashVars

(* Lines 135-147: one iteration of the loop that copies what is left of    *)
(* left_arr, entered once the interleaving loop has exited                 *)
CopyLeft ==
  /\ InFrame("merge")
  /\ ~(i < Len(left_arr) /\ j < Len(right_arr))
  /\ i < Len(left_arr)
  /\ Store(k, left_arr[i + 1])
  /\ Record(MergeRemainingRecord(Stored(k, left_arr[i + 1]),
                                 left_arr[i + 1], k))
  /\ i' = i + 1
  /\ k' = k + 1
  /\ array_accesses' = [array_accesses EXCEPT ![self] = @ + 1]
  /\ UNCHANGED <<arrRef, retRef, pc, self, track, stack, left_arr, right_arr,
                 j, comparisons, callGhosts>>
  /\ UNCHANGED live
  /\ UNCHANGED dashVars

(* CopyRight with the access of the copy not counted *)
CopyRight_NoAccess ==
  /\ InFrame("merge")
  /\ ~(i < Len(left_arr) /\ j < Len(right_arr))
  /\ ~(i < Len(left_arr))
  /\ j < Len(right_arr)
  /\ Store(k, right_arr[j + 1])
  /\ Record(MergeRemainingRecord(Stored(k, right_arr[j + 1]),
                                 right_arr[j + 1], k))
  /\ j' = j + 1
  /\ k' = k + 1
  /\ UNCHANGED <<arrRef, retRef, pc, self, track, stack, left_arr, right_arr,
                 i, comparisons, array_accesses, callGhosts>>
  /\ UNCHANGED live
  /\ UNCHANGED dashVars

(* Lines 150-162: one iteration of the loop that copies what is left of    *)
(* right_arr, entered once the two loops before it have exited             *)
CopyRight ==
  /\ InFrame("merge")
  /\ ~(i < Len(left_arr) /\ j < Len(right_arr))
  /\ ~(i < Len(left_arr))
  /\ j < Len(right_arr)
  /\ Store(k, right_arr[j + 1])
  /\ Record(MergeRemainingRecord(Stored(k, right_arr[j + 1]),
                                 right_arr[j + 1], k))
  /\ j' = j + 1
  /\ k' = k + 1
  /\ array_accesses' = [array_accesses EXCEPT ![self] = @ + 1]
  /\ UNCHANGED <<arrRef, retRef, pc, self, track, stack, left_arr, right_arr,
                 i, comparisons, callGhosts>>
  /\ UNCHANGED live
  /\ UNCHANGED dashVars

(* Lines 164-171 and 70: all three loops have exited; record               *)
(* merge_complete and return to the caller frame.  The buffers and loop    *)
(* indices die with the _merge frame.                                      *)
MergeComplete ==
  /\ InFrame("merge")
  /\ ~(i < Len(left_arr))
  /\ ~(j < Len(right_arr))
  /\ Record(MergeCompleteRecord(arr, Top.left, Top.right))
  /\ stack' = Pop(stack)
  /\ left_arr' = <<>> /\ right_arr' = <<>>
  /\ i' = 0 /\ j' = 0 /\ k' = 0
  /\ UNCHANGED <<heap, arrRef, retRef, pc, self, track, comparisons,
                 array_accesses, callGhosts>>
  /\ UNCHANGED live
  /\ UNCHANGED dashVars

Next ==
  \/ \E x \in Inputs, t \in BOOLEAN : CallNew(x, t)
  \/ \E t \in BOOLEAN : CallAgain(t)
  \/ \E t \in BOOLEAN : CallOnResult(t)
  \/ \E v \in Values : CallerAppend(v)
  \/ CallerPop
  \/ CallOnFreshEngine
  \/ Enter
  \/ Return
  \/ BaseCase
  \/ Divide
  \/ RecurseRight
  \/ MergeBegin
  \/ MergeCompare
  \/ CopyLeft
  \/ CopyRight
  \/ MergeComplete

Spec == Init /\ [][Next]_vars

(* The same system when callers may also pass lists that mix numbers and   *)
(* strings                                                                 *)
NextMixed ==
  \/ Next
  \/ \E x \in Inputs, t \in BOOLEAN : \E p \in 1..Len(x) : CallMixed(x, p, t)
  \/ RaiseTypeError

SpecMixed == Init /\ [][NextMixed]_vars

(* The same system with a consumer that keeps the engine's trace *)
NextConsumer ==
  \/ Next
  \/ Consume

SpecConsumer == Init /\ [][NextConsumer]_vars

(* The steps of the engine, as opposed to those of its callers *)
EngineStep ==
  \/ Enter
  \/ Return
  \/ BaseCase
  \/ Divide
  \/ RecurseRight
  \/ MergeBegin
  \/ MergeCompare
  \/ CopyLeft
  \/ CopyRight
  \/ MergeComplete

(* merge_sort runs synchronously in one thread: once called, the           *)
(* interpreter keeps executing its next statement.  The callers are under  *)
(* no obligation to call again.                                            *)
LiveSpec == Spec /\ WF_vars(EngineStep)

(* ----------------------------- the dashboard --------------------------- *)
(* main() of src/app.py is run from top to bottom once for every user      *)
(* interaction, and once more after st.rerun().  Each action below is one  *)
(* interaction with the script runs it causes; the Sort Array handler is   *)
(* split where it calls merge_sort, which runs by the engine's own steps.  *)
(*                                                                         *)
(* st.slider("Step:", 0, total_steps - 1, current_step) has no key: the    *)
(* widget is identified by its arguments, among them the maximum and the   *)
(* default.  It returns the value the dashboard holds for that widget,     *)
(* which is the default when the widget is first rendered and what the     *)
(* user last set afterwards.                                               *)
Widget(mx, dflt, val) == [max |-> mx, default |-> dflt, value |-> val]

SameWidget(w, mx, dflt) == w.max = mx /\ w.default = dflt

SliderValue(ws, mx, dflt) ==
  IF \E w \in ws : SameWidget(w, mx, dflt)
  THEN (CHOOSE w \in ws : SameWidget(w, mx, dflt)).value
  ELSE dflt

(* Lines 183 and 195: the navigation is rendered when there is an input    *)
(* and a step list                                                         *)
NavigationShown(inp, stp) == inp # <<>> /\ stp # <<>>

(* Lines 199-202: current_step after the slider has been called *)
AfterSlider(inp, stp, cs, ws) ==
  IF NavigationShown(inp, stp) THEN SliderValue(ws, Len(stp) - 1, cs) ELSE cs

(* The slider widget a script run renders *)
Rendered(inp, stp, cs, ws) ==
  IF NavigationShown(inp, stp)
  THEN {Widget(Len(stp) - 1, cs, AfterSlider(inp, stp, cs, ws))}
  ELSE {}

(* A script run, from line 195 on, in which no navigation button is        *)
(* pressed: the slider's value becomes current_step; the run ends, and the *)
(* dashboard keeps a value only for the widgets it has rendered            *)
Finish(inp, sa, stp, cs, ws) ==
  /\ session' = [input_array |-> inp, sorted_array |-> sa,
                 current_step |-> AfterSlider(inp, stp, cs, ws)]
  /\ widgets' = Rendered(inp, stp, cs, ws)

(* st.rerun() in a run that has rendered the slider with default cs0 and   *)
(* then set current_step to cs: the run stops and the script runs again    *)
(* with no button pressed.  Whether the values of widgets the stopped run  *)
(* did not render are still held is left open.                             *)
Rerun(inp, sa, stp, cs0, cs, ws) ==
  \E keep \in BOOLEAN :
    Finish(inp, sa, stp, cs,
           (IF keep THEN ws ELSE {}) \cup Rendered(inp, stp, cs0, ws))

Ready == script = "none" /\ pc \in {"idle", "done"}

total_steps == Len(held)

(* Lines 151-153, 163-165, 174-176: a new input array is put in the        *)
(* session and the result, the step list and the step index are reset      *)
Load(x) ==
  /\ Ready
  /\ held' = <<>>
  /\ live' = FALSE
  /\ Finish(x, None, <<>>, 0, widgets)
  /\ UNCHANGED <<heap, arrRef, retRef, pc, self, track, stack, mergeLocals,
                 engineFields, callGhosts, script>>

(* Lines 149-153 *)
GenerateArray(x) == Load(x)

(* Lines 160-165 *)
UseManualInput(x) == Load(x)

(* Lines 172-176 *)
LoadExample(x) == Load(x)

(* Lines 166-167: the text is not a list of integers; the session is left  *)
(* as it is and the run goes on                                            *)
UseInvalidInput ==
  /\ Ready
  /\ Finish(session.input_array, session.sorted_array, held,
            session.current_step, widgets)
  /\ UNCHANGED <<heap, arrRef, retRef, pc, self, track, stack, mergeLocals,
                 engineFields, callGhosts, consumerVars, script>>

(* Lines 183-190: Sort Array is pressed; merge_sort is called on a copy of *)
(* the input with track_steps=True                                         *)
SortArray ==
  /\ Ready
  /\ CanCall
  /\ session.input_array # <<>>
  /\ BeginCall(Tagged(Copy(session.input_array)), TRUE, FALSE)
  /\ script' = "sort"
  /\ UNCHANGED <<session, widgets>>

(* Lines 188-193 and the rest of that run: merge_sort has returned; the    *)
(* result and the engine's step list are put in the session, current_step  *)
(* is set to 0, and the run goes on to the slider                          *)
SortFinish ==
  /\ script = "sort"
  /\ pc = "done"
  /\ held' = steps[1]
  /\ live' = TRUE
  /\ Finish(session.input_array, Some(Vals(Deref(retRef))), steps[1], 0,
            widgets)
  /\ script' = "none"
  /\ UNCHANGED <<heap, arrRef, retRef, pc, self, track, stack, mergeLocals,
                 engineFields, callGhosts>>

(* The user moves the slider to v: the dashboard holds v for the widget    *)
(* on the page and the script runs                                         *)
MoveSlider(v) ==
  /\ Ready
  /\ \E w \in widgets :
       /\ w = Widget(total_steps - 1, w.default, session.current_step)
       /\ v \in 0..w.max
       /\ v # w.value
       /\ Finish(session.input_array, session.sorted_array, held,
                 session.current_step,
                 (widgets \ {w}) \cup {Widget(w.max, w.default, v)})
  /\ UNCHANGED <<heap, arrRef, retRef, pc, self, track, stack, mergeLocals,
                 engineFields, callGhosts, consumerVars, script>>

(* A run in which a navigation button is pressed: the handler computes the *)
(* new index from the one the slider returned; go says whether the         *)
(* button's condition holds, and then the index is set and st.rerun() is   *)
(* called                                                                  *)
Navigate(go, target) ==
  /\ Ready
  /\ NavigationShown(session.input_array, held)
  /\ IF go
     THEN Rerun(session.input_array, session.sorted_array, held,
                session.current_step, target, widgets)
     ELSE Finish(session.input_array, session.sorted_array, held,
                 session.current_step, widgets)
  /\ UNCHANGED <<heap, arrRef, retRef, pc, self, track, stack, mergeLocals,
                 engineFields, callGhosts, consumerVars, script>>

(* current_step as the button handlers of a run see it *)
shown_step ==
  AfterSlider(session.input_array, held, session.current_step, widgets)

(* Lines 206-208 and 280-282 *)
ClickFirst == Navigate(TRUE, 0)

(* Lines 210-212 and 285-287 *)
ClickPrevious == Navigate(shown_step > 0, shown_step - 1)

(* Lines 214-216 and 293-295 *)
ClickNext == Navigate(shown_step < total_steps - 1, shown_step + 1)

(* Lines 298-300 *)
ClickLast == Navigate(TRUE, total_steps - 1)

(* Lines 219-227: st.rerun() ends the run in the first iteration of the    *)
(* loop, which has set current_step to the value it already has            *)
StartAutoPlay == Navigate(shown_step < total_steps, shown_step)

NextDashboard ==
  \/ \E x \in generate_sample_data : GenerateArray(x)
  \/ \E x \in ManualInputs : UseManualInput(x)
  \/ \E x \in generate_test_cases : LoadExample(x)
  \/ UseInvalidInput
  \/ SortArray
  \/ SortFinish
  \/ \E v \in 0..total_steps - 1 : MoveSlider(v)
  \/ ClickFirst
  \/ ClickPrevious
  \/ ClickNext
  \/ ClickLast
  \/ StartAutoPlay
  \/ EngineStep

SpecDashboard == Init /\ [][NextDashboard]_vars

TypeOK ==
  /\ pc \in {"idle", "enter", "run", "done", "written", "raised"}
  /\ arrRef \in {"none", "input", "work"}
  /\ retRef \in {"none", "input", "work"}
  /\ self \in Engines
  /\ ncalls \in 0..MaxCalls
  /\ live \in BOOLEAN
  /\ script \in {"none", "sort"}
  /\ session.current_step \in Nat
  /\ session.sorted_array.isNone \in BOOLEAN

(* ------------------------- auxiliary operators ------------------------- *)
Result == Deref(retRef)

Returned == pc = "done"

Count(e, s) == Cardinality({n \in 1..Len(s) : s[n] = e})

Range(s) == {s[n] : n \in 1..Len(s)}

SameElements(s, t) == \A e \in Range(s) \cup Range(t) : Count(e, s) = Count(e, t)

NonDescending(s) == \A n \in 1..Len(s) - 1 : s[n].val <= s[n + 1].val

(* The reference ascending sort of a sequence of values (insertion sort) *)
RECURSIVE InsertSorted(_, _)
InsertSorted(v, s) ==
  IF s = <<>> THEN <<v>>
  ELSE IF v <= Head(s) THEN <<v>> \o s
  ELSE <<Head(s)>> \o InsertSorted(v, Tail(s))

RECURSIVE Sorted(_)
Sorted(s) == IF s = <<>> THEN <<>> ELSE InsertSorted(Head(s), Sorted(Tail(s)))

(* Position of element e in list s, 0 when absent *)
IndexOf(s, e) ==
  IF \E n \in 1..Len(s) : s[n] = e
  THEN CHOOSE n \in 1..Len(s) : s[n] = e
  ELSE 0

HasEqualPair(s) == \E a, b \in 1..Len(s) : a < b /\ s[a].val = s[b].val

LastStep(e) == steps[e][Len(steps[e])]

(* ------------------------------- claims -------------------------------- *)

(* C1: whenever merge_sort has returned, with either value of the tracking *)
(* flag, the returned list has the length of the input, holds the same     *)
(* elements with the same multiplicities, is in non-descending order, and  *)
(* its values are the reference ascending sort of the input's values.      *)
C1_SortsInput ==
  Returned =>
    /\ Len(Result) = Len(input0)
    /\ SameElements(Result, input0)
    /\ NonDescending(Result)
    /\ Vals(Result) = Sorted(Vals(input0))

C1_Witness ==
  /\ Returned
  /\ Len(input0) = MaxLen
  /\ HasEqualPair(input0)
  /\ ~NonDescending(input0)
  /\ NonDescending(Result)

(* C2: stability: any two elements of equal value appear in the returned   *)
(* list in the same relative order as they had in the input.               *)
C2_Stable ==
  Returned =>
    \A a, b \in 1..Len(Result) :
      (a < b /\ Result[a].val = Result[b].val)
        => IndexOf(input0, Result[a]) < IndexOf(input0, Result[b])

C2_Witness ==
  /\ Returned
  /\ Len(input0) >= 3
  /\ input0[1].val > input0[2].val
  /\ input0[2].val = input0[3].val
  /\ Result[1] = input0[2]
  /\ Result[2] = input0[3]

(* C3: from the moment merge_sort is called until the caller next touches  *)
(* a list, the caller's input list holds exactly what it held at the call. *)
C3_InputNeverWritten ==
  pc \in {"enter", "run", "done"} => heap.input = input0

C3_Witness ==
  /\ pc = "run"
  /\ stack # <<>>
  /\ Top.at = "merge"
  /\ heap.work # input0
  /\ heap.input = input0

(* C4: the list merge_sort returns is never the caller's input object, for *)
(* any input length, so a write (append, pop) to the returned list leaves  *)
(* the input as it was at the call.                                        *)
C4_ReturnsNewObject ==
  /\ Returned => retRef # "input"
  /\ pc = "written" => heap.input = input0

(* C5: when a call with track_steps false has returned, the trace and both *)
(* counters of the engine are what they were when the call was made.       *)
C5_UntrackedCallLeavesEngine ==
  (Returned /\ ~track) => Fields(self) = pre

(* C6: when a freshly constructed engine has returned from an instrumented *)
(* sort of the list the long-lived engine has just sorted instrumented,    *)
(* the two engines hold the same trace and the same counters.              *)
C6_TrackedRunIgnoresHistory ==
  (Returned /\ self = 2) => Fields(1) = Fields(2)

C6_Witness ==
  /\ Returned
  /\ self = 2
  /\ Len(input0) >= 2
  /\ pre.comparisons > 0
  /\ pre.array_accesses > 0
  /\ comparisons[2] > 0

(* C7: an instrumented call on a list of length 0 or 1 returns a list      *)
(* equal to the input and leaves 0 steps, 0 comparisons and 0 accesses.    *)
C7_ShortInputTracked ==
  (Returned /\ track /\ Len(input0) <= 1) =>
    /\ Result = input0
    /\ get_statistics(self) = [comparisons |-> 0, array_accesses |-> 0,
                               steps |-> 0]

C7_Witness ==
  /\ Returned
  /\ track
  /\ self = 1
  /\ Len(input0) <= 1
  /\ pre.comparisons > 0
  /\ Len(pre.steps) > 0

(* C8: after an instrumented call on a list of length >= 2, get_statistics *)
(* reports comparisons > 0, array_accesses > 0 and steps > 0.              *)
C8_StatisticsPositive ==
  (Returned /\ track /\ Len(input0) >= 2) =>
    /\ get_statistics(self).comparisons > 0
    /\ get_statistics(self).array_accesses > 0
    /\ get_statistics(self).steps > 0

C8_Witness ==
  /\ Returned
  /\ track
  /\ Len(input0) = 2
  /\ NonDescending(input0)
  /\ get_statistics(self).comparisons = 1

(* C9: after an instrumented call on a list of length n >= 2, the last     *)
(* record of the trace is merge_complete for the range [0, n-1] and its    *)
(* array snapshot equals the returned list.                                *)
C9_LastRecordIsFullMerge ==
  (Returned /\ track /\ Len(input0) >= 2) =>
    /\ Len(steps[self]) > 0
    /\ LastStep(self).type = "merge_complete"
    /\ LastStep(self).left = 0
    /\ LastStep(self).right = Len(input0) - 1
    /\ LastStep(self).array = Result

C9_Witness ==
  /\ Returned
  /\ track
  /\ Len(input0) = MaxLen
  /\ Result # input0
  /\ LastStep(self).array = Result

(* C10: sorting the list a previous call returned gives an identical list, *)
(* and sorting any non-descending list returns a list identical to it,     *)
(* equal elements included (they stay in their existing order).            *)
C10_ResortIsIdentity ==
  Returned =>
    /\ resort => Result = input0
    /\ NonDescending(input0) => Result = input0

C10_Witness ==
  /\ Returned
  /\ resort
  /\ Len(input0) >= 2
  /\ HasEqualPair(input0)
  /\ retRef = "work"
  /\ Result = input0

(* C11: merge_sort is total: every call, with either value of the tracking *)
(* flag, eventually returns.                                               *)
C11_CallReturns == (pc \in {"enter", "run"}) ~> Returned

C11_Witness ==
  /\ Returned
  /\ ncalls = MaxCalls
  /\ Len(input0) = MaxLen
  /\ Len(stack) = 0
  /\ retRef = "work"

(* int.bit_length() of a natural number *)
RECURSIVE BitLength(_)
BitLength(n) == IF n = 0 THEN 0 ELSE 1 + BitLength(n \div 2)

(* C12: after an instrumented call on a list of length n >= 2 the          *)
(* comparison counter is at most 2 * n * floor(log2(n)).                   *)
C12_ComparisonBound ==
  (Returned /\ track /\ Len(input0) >= 2) =>
    comparisons[self] <= 2 * Len(input0) * (BitLength(Len(input0)) - 1)

C12_Witness ==
  /\ Returned
  /\ track
  /\ Len(input0) = MaxLen
  /\ \A n \in 1..Len(input0) - 1 : input0[n].val >= input0[n + 1].val
  /\ input0[1].val > input0[Len(input0)].val
  /\ comparisons[self] >= Len(input0) - 1

(* C13: when a call fails because two elements cannot be compared, the     *)
(* engine's trace and counters are exactly what they were when the call    *)
(* was made.                                                               *)
C13_FailedCallLeavesEngine ==
  pc = "raised" => Fields(self) = pre

(* Number of records of type ty in trace s *)
NumOfType(s, ty) == Cardinality({n \in 1..Len(s) : s[n].type = ty})

(* C14: after an instrumented call the comparison counter equals the       *)
(* number of merge_step records and the access counter equals 3 times the  *)
(* number of merge_step records plus the number of merge_remaining         *)
(* records.                                                                *)
C14_CountersMatchTrace ==
  (Returned /\ track) =>
    /\ comparisons[self] = NumOfType(steps[self], "merge_step")
    /\ array_accesses[self] = 3 * NumOfType(steps[self], "merge_step")
                               + NumOfType(steps[self], "merge_remaining")

C14_Witness ==
  /\ Returned
  /\ track
  /\ pre.comparisons > 0
  /\ NumOfType(steps[self], "merge_step") >= 2
  /\ NumOfType(steps[self], "merge_remaining") >= 2
  /\ \E n \in 1..Len(steps[self]) :
       /\ steps[self][n].type = "merge_remaining"
       /\ steps[self][n].position = Len(input0) - 1

(* ----------------------- the records of one merge ---------------------- *)
(* _merge does not recurse, so the records of the merge that starts at     *)
(* index s of trace t are the ones after s up to the next merge_complete   *)
(* (or up to the end of the trace while the merge is in progress).         *)
IsMergeStart(t, s) == s \in 1..Len(t) /\ t[s].type = "merge_start"

MergeEnd(t, s) ==
  IF \E c \in s + 1..Len(t) : t[c].type = "merge_complete"
  THEN CHOOSE c \in s + 1..Len(t) :
         /\ t[c].type = "merge_complete"
         /\ \A d \in s + 1..c - 1 : t[d].type # "merge_complete"
  ELSE Len(t) + 1

MergeBody(t, s) == s + 1..MergeEnd(t, s) - 1

IsRemaining(rec) == rec.type = "merge_remaining"

(* The elements copied by the merge_remaining records of the merge, in     *)
(* trace order                                                             *)
RemainingOf(t, s) ==
  LET body == SelectSeq(SubSeq(t, s + 1, MergeEnd(t, s) - 1), IsRemaining)
  IN [n \in 1..Len(body) |-> body[n].element]

TakenLeft(t, s) ==
  Cardinality({n \in MergeBody(t, s) :
                 t[n].type = "merge_step" /\ t[n].chosen = t[n].comparing[1]})

TakenRight(t, s) ==
  Cardinality({n \in MergeBody(t, s) :
                 t[n].type = "merge_step" /\ t[n].chosen = t[n].comparing[2]})

IsPrefix(p, q) == Len(p) <= Len(q) /\ SubSeq(q, 1, Len(p)) = p

Suffix(q, n) == SubSeq(q, n + 1, Len(q))

MergeDone(t, s) == MergeEnd(t, s) <= Len(t)

(* The merge_remaining records of the merge at s follow all its merge_step *)
(* records and copy, in order, what is left of the one buffer that the     *)
(* interleaving has not exhausted                                          *)
DrainShape(t, s) ==
  LET rem == RemainingOf(t, s)
      L == t[s].left_subarray
      R == t[s].right_subarray
      nl == TakenLeft(t, s)
      nr == TakenRight(t, s)
  IN /\ \A a, b \in MergeBody(t, s) :
          (a < b /\ t[a].type = "merge_remaining") => t[b].type # "merge_step"
     /\ rem # <<>> =>
          \/ nl = Len(L) /\ nr < Len(R) /\ IsPrefix(rem, Suffix(R, nr))
          \/ nr = Len(R) /\ nl < Len(L) /\ IsPrefix(rem, Suffix(L, nl))
     /\ MergeDone(t, s) =>
          \/ nl = Len(L) /\ rem = Suffix(R, nr)
          \/ nr = Len(R) /\ rem = Suffix(L, nl)

C15_TraceShape ==
  \A e \in Engines : \A s \in 1..Len(steps[e]) :
    IsMergeStart(steps[e], s) => DrainShape(steps[e], s)

C15_NoCompareAfterRemaining ==
  (pc = "run" /\ track /\ steps[self] # <<>>
     /\ LastStep(self).type = "merge_remaining")
    => comparisons' = comparisons

(* C15: within one merge no merge_step record follows a merge_remaining    *)
(* record, the comparison counter does not change once a merge_remaining   *)
(* record has been appended, and the merge_remaining records copy, in      *)
(* buffer order, the leftover of the single buffer that is not exhausted.  *)
C15_DrainAfterInterleave ==
  []C15_TraceShape /\ [][C15_NoCompareAfterRemaining]_vars

C15_Witness ==
  /\ Returned
  /\ track
  /\ \E s \in 1..Len(steps[self]) :
       /\ IsMergeStart(steps[self], s)
       /\ Len(RemainingOf(steps[self], s)) >= 2
       /\ TakenRight(steps[self], s) >= 1
       /\ MergeDone(steps[self], s)

DivideShape(rec) ==
  /\ rec.left < rec.right
  /\ rec.mid = (rec.left + rec.right) \div 2
  /\ rec.left <= rec.mid /\ rec.mid < rec.right
  /\ (rec.mid - rec.left + 1) - (rec.right - rec.mid) \in {0, 1}

(* C16: every divide record has left < right and mid = floor((left +       *)
(* right) / 2), so left <= mid < right and the left part is as long as the *)
(* right part or one element longer; no divide record is made for a range  *)
(* of length <= 1.                                                         *)
C16_DivideRecords ==
  \A e \in Engines : \A n \in 1..Len(steps[e]) :
    steps[e][n].type = "divide" => DivideShape(steps[e][n])

C16_Witness ==
  /\ Returned
  /\ track
  /\ \E n, m \in 1..Len(steps[self]) :
       /\ steps[self][n].type = "divide"
       /\ steps[self][n].right - steps[self][n].left = 2
       /\ steps[self][n].mid = steps[self][n].left + 1
       /\ steps[self][m].type = "divide"
       /\ steps[self][m].right - steps[self][m].left = 1
       /\ steps[self][m].mid = steps[self][m].left

(* ------------------- the range a record is about ----------------------- *)
HasRange(rec) == rec.type \in {"divide", "merge_start", "merge_complete"}

(* The merge_start of the merge a merge_step / merge_remaining record at   *)
(* index x belongs to: the last merge_start before x                       *)
EnclosingStart(t, x) ==
  CHOOSE s \in 1..x - 1 :
    /\ t[s].type = "merge_start"
    /\ \A u \in s + 1..x - 1 : t[u].type # "merge_start"

RangeLeft(t, x) ==
  IF HasRange(t[x]) THEN t[x].left ELSE t[EnclosingStart(t, x)].left

RangeRight(t, x) ==
  IF HasRange(t[x]) THEN t[x].right ELSE t[EnclosingStart(t, x)].right

Within(t, x, l, r) == l <= RangeLeft(t, x) /\ RangeRight(t, x) <= r

StartsOf(t, l, m, r) ==
  {x \in 1..Len(t) : t[x].type = "merge_start" /\ t[x].left = l
                       /\ t[x].mid = m /\ t[x].right = r}

CompletesOf(t, l, r) ==
  {x \in 1..Len(t) : t[x].type = "merge_complete" /\ t[x].left = l
                       /\ t[x].right = r}

(* The divide record at index d is matched by one merge_start and one      *)
(* merge_complete after it, and between d and that merge_start lie exactly *)
(* the records about the left half followed by those about the right half  *)
Nested(t, d) ==
  LET l == t[d].left
      m == t[d].mid
      r == t[d].right
  IN /\ Cardinality(StartsOf(t, l, m, r)) = 1
     /\ Cardinality(CompletesOf(t, l, r)) = 1
     /\ \A ms \in StartsOf(t, l, m, r) : \A mc \in CompletesOf(t, l, r) :
          /\ d < ms /\ ms < mc
          /\ \A x \in 1..Len(t) :
               (Within(t, x, l, m) \/ Within(t, x, m + 1, r)) <=> (d < x /\ x < ms)
          /\ \A x, y \in 1..Len(t) :
               (Within(t, x, l, m) /\ Within(t, y, m + 1, r)) => x < y

MergeStepShape(rec) ==
  LET a == rec.comparing[1]
      b == rec.comparing[2]
  IN /\ a.val <= b.val => rec.chosen = a
     /\ a.val > b.val => rec.chosen = b
     /\ rec.chosen = a => a.val <= b.val
     /\ rec.position + 1 \in 1..Len(rec.array)
     /\ rec.array[rec.position + 1] = rec.chosen

(* C18: in every merge_step record with compared pair [a, b] the chosen    *)
(* element is a exactly when a <= b and b otherwise, and the snapshot was  *)
(* taken after the placement: snapshot[position] is the chosen element.    *)
C18_MergeStepRecords ==
  \A e \in Engines : \A n \in 1..Len(steps[e]) :
    steps[e][n].type = "merge_step" => MergeStepShape(steps[e][n])

C18_Witness ==
  /\ Returned
  /\ track
  /\ \E n, m \in 1..Len(steps[self]) :
       /\ steps[self][n].type = "merge_step"
       /\ steps[self][n].comparing[1].val = steps[self][n].comparing[2].val
       /\ steps[self][n].chosen = steps[self][n].comparing[1]
       /\ steps[self][m].type = "merge_step"
       /\ steps[self][m].comparing[1].val > steps[self][m].comparing[2].val
       /\ steps[self][m].chosen = steps[self][m].comparing[2]

C19_StepKeepsTrace ==
  (pc = "run" /\ track) => IsPrefix(steps[self], steps'[self])

(* C19: during an instrumented run the trace is append-only: every step of *)
(* the run leaves the records already appended, with all their fields,     *)
(* exactly as they were, whatever is written to the working array.         *)
C19_TraceAppendOnly == [][C19_StepKeepsTrace]_vars

C19_Witness ==
  /\ pc = "run"
  /\ track
  /\ Len(steps[self]) >= 4
  /\ steps[self][1].type = "divide"
  /\ steps[self][1].array = input0
  /\ arr # input0
  /\ \E n \in 1..Len(steps[self]) :
       /\ steps[self][n].type = "merge_start"
       /\ steps[self][n].left_subarray
             # SubSeq(arr, steps[self][n].left + 1, steps[self][n].mid + 1)

C20_HeldChangesOnlyWhenTaken == held' # held => Consume

(* C20: the trace a consumer has taken from the engine after an            *)
(* instrumented run is never changed by later calls on that engine: the    *)
(* list it holds changes only when the consumer takes the trace again.     *)
C20_ConsumerTraceStable == [][C20_HeldChangesOnlyWhenTaken]_vars

C20_Witness ==
  /\ Returned
  /\ self = 1
  /\ track
  /\ held # <<>>
  /\ ~live
  /\ steps[1] # <<>>
  /\ steps[1] # held

IsPlacement(rec) == rec.type \in {"merge_step", "merge_remaining"}

(* Python index p of snapshot a lies outside the range [l, r] *)
Outside(p, l, r) == p < l \/ p > r

(* The records of the merge that starts at index s of trace t place at     *)
(* l, l+1, ... in turn, each snapshot differs from the one before it only  *)
(* at the position placed, and a finished merge has made r-l+1 placements  *)
(* and left everything outside [l, r] as the merge_start snapshot has it   *)
WriteShape(t, s) ==
  LET l == t[s].left
      r == t[s].right
      c == MergeEnd(t, s)
  IN /\ \A n \in MergeBody(t, s) :
          /\ IsPlacement(t[n])
          /\ t[n].position = l + (n - s - 1)
          /\ t[n].position <= r
          /\ Len(t[n].array) = Len(t[s].array)
          /\ \A p \in 0..Len(t[n].array) - 1 :
               p # t[n].position => t[n].array[p + 1] = t[n - 1].array[p + 1]
     /\ MergeDone(t, s) =>
          /\ c - s - 1 = r - l + 1
          /\ t[c].left = l /\ t[c].right = r
          /\ t[c].array = t[c - 1].array
          /\ \A p \in 0..Len(t[c].array) - 1 :
               Outside(p, l, r) => t[c].array[p + 1] = t[s].array[p + 1]

C21_TraceWrites ==
  \A e \in Engines : \A s \in 1..Len(steps[e]) :
    IsMergeStart(steps[e], s) => WriteShape(steps[e], s)

(* A step of a run either leaves both lists alone or is a placement of the *)
(* merge in progress: it writes the working list at k only, with           *)
(* left <= k <= right, and moves k on by one                               *)
C21_StepWritesAtK ==
  pc = "run" =>
    \/ heap' = heap
    \/ /\ InFrame("merge")
       /\ Top.left <= k /\ k <= Top.right
       /\ k' = k + 1
       /\ heap'.input = heap.input
       /\ Len(heap'.work) = Len(heap.work)
       /\ \A p \in 0..Len(heap.work) - 1 :
            p # k => heap'.work[p + 1] = heap.work[p + 1]

(* C21: a merge of range [l, r] writes exactly the positions l, l+1, ...,  *)
(* r of the working array, each once and in increasing order (the position *)
(* fields of its merge_step and merge_remaining records are l..r           *)
(* consecutively, r-l+1 placements in all), and every element outside      *)
(* [l, r] is the same in the merge_complete snapshot as in the merge_start *)
(* snapshot.                                                               *)
C21_MergeWritesRange == []C21_TraceWrites /\ [][C21_StepWritesAtK]_vars

C21_Witness ==
  /\ Returned
  /\ track
  /\ Len(input0) = MaxLen
  /\ \E s, u \in 1..Len(steps[self]) :
       /\ IsMergeStart(steps[self], s)
       /\ MergeDone(steps[self], s)
       /\ steps[self][s].right - steps[self][s].left = 1
       /\ steps[self][s].right < Len(input0) - 1
       /\ steps[self][MergeEnd(steps[self], s)].array # steps[self][s].array
       /\ IsMergeStart(steps[self], u)
       /\ MergeDone(steps[self], u)
       /\ steps[self][u].right - steps[self][u].left = MaxLen - 1
       /\ steps[self][MergeEnd(steps[self], u)].array # steps[self][u].array
       /\ NumOfType(SubSeq(steps[self], u, MergeEnd(steps[self], u)),
                    "merge_remaining") >= 1

(* Python slice a[l..r], both ends included *)
Restricted(a, l, r) == SubSeq(a, l + 1, r + 1)

MergeStartShape(rec) ==
  /\ NonDescending(rec.left_subarray)
  /\ NonDescending(rec.right_subarray)
  /\ rec.left_subarray = Restricted(rec.array, rec.left, rec.mid)
  /\ rec.right_subarray = Restricted(rec.array, rec.mid + 1, rec.right)

(* The merge_complete record that ends the merge started at index s *)
MergeCompleteShape(t, s) ==
  LET c == MergeEnd(t, s)
      merged == Restricted(t[c].array, t[c].left, t[c].right)
  IN /\ t[c].left = t[s].left /\ t[c].right = t[s].right
     /\ NonDescending(merged)
     /\ SameElements(merged, t[s].left_subarray \o t[s].right_subarray)
     /\ Len(merged) = Len(t[s].left_subarray) + Len(t[s].right_subarray)

(* C22: in every merge_start record the left_subarray and the              *)
(* right_subarray are each non-descending and equal the snapshot's slices  *)
(* [left..mid] and [mid+1..right]; in every merge_complete record for      *)
(* range [l, r] the snapshot restricted to [l, r] is non-descending and is *)
(* a permutation of left_subarray followed by right_subarray of the        *)
(* matching merge_start.                                                   *)
C22_MergeRecords ==
  \A e \in Engines : \A s \in 1..Len(steps[e]) :
    IsMergeStart(steps[e], s) =>
      /\ MergeStartShape(steps[e][s])
      /\ MergeDone(steps[e], s) => MergeCompleteShape(steps[e], s)

C22_Witness ==
  /\ Returned
  /\ track
  /\ \E s \in 1..Len(steps[self]) :
       /\ IsMergeStart(steps[self], s)
       /\ MergeDone(steps[self], s)
       /\ Len(steps[self][s].left_subarray) = 2
       /\ steps[self][s].left_subarray[1].val
            < steps[self][s].left_subarray[2].val
       /\ ~NonDescending(steps[self][s].array)
       /\ NonDescending(steps[self][MergeEnd(steps[self], s)].array)

StepTypes == {"divide", "merge_start", "merge_step", "merge_remaining",
              "merge_complete"}

IsPermutation(a, b) == Len(a) = Len(b) /\ SameElements(a, b)

RecordShape(rec, input) ==
  /\ {"type", "description", "array"} \subseteq DOMAIN rec
  /\ rec.type \in StepTypes
  /\ rec.description # ""
  /\ Len(rec.array) = Len(input)
  /\ HasRange(rec) => IsPermutation(rec.array, input)

InstrumentedRun == track /\ pc \in {"run", "done"}

(* C23: every record of an instrumented run carries a type among divide,   *)
(* merge_start, merge_step, merge_remaining and merge_complete, a          *)
(* description, and an array snapshot as long as the input; the snapshot   *)
(* of every divide, merge_start and merge_complete record is a permutation *)
(* of the input.                                                           *)
C23_RecordFields ==
  InstrumentedRun =>
    \A n \in 1..Len(steps[self]) : RecordShape(steps[self][n], input0)

(* A finished run with records of all five types, a range record whose     *)
(* snapshot is a rearrangement of the input, and placement records whose   *)
(* mid-merge snapshots hold an element twice                               *)
C23_Witness ==
  /\ Returned
  /\ track
  /\ Len(input0) = MaxLen
  /\ \A ty \in StepTypes : NumOfType(steps[self], ty) >= 1
  /\ LastStep(self).array # input0
  /\ \E n, m \in 1..Len(steps[self]) :
       /\ steps[self][n].type = "merge_step"
       /\ ~IsPermutation(steps[self][n].array, input0)
       /\ steps[self][m].type = "merge_remaining"
       /\ ~IsPermutation(steps[self][m].array, input0)

(* Whenever the session's step list is non-empty, current_step is an index *)
(* of it                                                                   *)
C24_IndexInRange ==
  held # <<>> =>
    /\ 0 <= session.current_step
    /\ session.current_step <= Len(held) - 1

LoadsInput ==
  \/ \E x \in generate_sample_data : GenerateArray(x)
  \/ \E x \in ManualInputs : UseManualInput(x)
  \/ \E x \in generate_test_cases : LoadExample(x)

C24_LoadAndSortReset ==
  (LoadsInput \/ SortFinish) => session'.current_step = 0

(* C24: in the dashboard, after any sequence of user actions, whenever the *)
(* session's step list is non-empty the current step index satisfies       *)
(* 0 <= current_step <= len(steps) - 1; and when a new input has been      *)
(* loaded or the array has been sorted, current_step is 0.                 *)
C24_StepIndex == []C24_IndexInRange /\ [][C24_LoadAndSortReset]_vars

====
